---------------------------- MODULE Spec2Model ----------------------------
(***************************************************************************)
(* A model of the Pretzyl interpreter (src/pretzyl.py): the tokenizer's    *)
(* conversion of raw units, the heap of stacks, the operator dispatcher,   *)
(* the two modifiers (squash, times) and the eval loop.                    *)
(*                                                                         *)
(* Values are tagged records: [int |-> n], [bool |-> b], [none |-> TRUE],  *)
(* [ref |-> name] (a Reference instance), [list |-> <<...>>] (a python     *)
(* list) and [op |-> name] (a wrapped operator function found in the       *)
(* environment).  Exceptions are strings naming the exception class;       *)
(* "none" means no exception.  The comparison and truth rules are those of *)
(* CPython 2, the interpreter src/test.py is written for.                  *)
(*                                                                         *)
(* eval tokenizes the whole line before its loop starts (pretzyl.py:671).  *)
(* tokenize maps each raw unit on its own (pretzyl.py:96-102) and the loop *)
(* consumes the tokens left to right, so the model reads the line one raw  *)
(* unit at a time: `tokens` holds the tokens of the units read so far that *)
(* the loop has not popped yet, and the line may end wherever `tokens` is  *)
(* empty.                                                                  *)
(***************************************************************************)
EXTENDS Integers, Sequences, FiniteSets, TLC

VARIABLES
    STACKLIMIT,  \* Pretzyl.STACKLIMIT (pretzyl.py:507), set by the host
    STACKDEPTH,  \* Pretzyl.STACKDEPTH (pretzyl.py:508)
    INFLIMIT,    \* Pretzyl.INFLIMIT (pretzyl.py:509)
    macros,      \* self.macros: the macro table the instance was made with
    stacks,      \* self.stacks: the heap of stacks, the last one is active
    lastop,      \* self.lastop: an operator name, or "None"
    tokens,      \* eval's local `tokens`, next token first
    frames,      \* the modifier calls in progress, outermost first
    status,      \* "idle", "running", "returned" or the exception raised
    result,      \* what eval returned
    count,       \* eval's count argument
    lookup,      \* eval's lookup argument
    nunits,      \* raw units of the running eval's line read so far (under
                 \* SpecHeap: calls of the heap's methods made so far)
    ev           \* history: the operator call or loop end of the last step,
                 \* the modifier frames it was made from and the heap it found

vars == <<STACKLIMIT, STACKDEPTH, INFLIMIT, macros, stacks, lastop, tokens, frames,
          status, result, count, lookup, nunits, ev>>

---------------------------------------------------------------------------
(* Bounds of the model *)

\* raw units per line
MaxUnits == 5
\* largest limit the host configures
MaxLimit == 3
\* largest STACKDEPTH the host configures
MaxDepth == 2
\* nested python calls of operators before the host interpreter gives up
MaxCallDepth == 5
\* calls of the heap's methods made one after the other
MaxCalls == 5

Limits == 1..MaxLimit

---------------------------------------------------------------------------
(* Values *)

IntV(n) == [int |-> n]
BoolV(b) == [bool |-> b]
NoneV == [none |-> TRUE]
RefV(name) == [ref |-> name]
ListV(s) == [list |-> s]
OpV(name) == [op |-> name]

IsInt(v) == DOMAIN v = {"int"}
IsBool(v) == DOMAIN v = {"bool"}
IsNone(v) == DOMAIN v = {"none"}
IsRef(v) == DOMAIN v = {"ref"}
IsList(v) == DOMAIN v = {"list"}
IsOp(v) == DOMAIN v = {"op"}

\* python numbers: int, and bool as its subclass
IsNum(v) == IsInt(v) \/ IsBool(v)
Num(v) == IF IsInt(v) THEN v.int ELSE IF v.bool THEN 1 ELSE 0

\* python truth value of a value
Truthy(v) ==
    IF IsNum(v) THEN Num(v) # 0
    ELSE IF IsNone(v) THEN FALSE
    ELSE IF IsList(v) THEN Len(v.list) > 0
    ELSE TRUE

\* python 2 `v > n` for an int n: None is below every number, every other
\* non-number is above every number
PyGt(v, n) ==
    IF IsNum(v) THEN Num(v) > n
    ELSE IF IsNone(v) THEN FALSE
    ELSE TRUE

---------------------------------------------------------------------------
(* Tokenizer *)

PUSHTOKEN == "("
POPTOKEN == ")"
BOOLEANS == {"True", "False"}

\* int(token) for the decimal numerals the model's lines use
Numerals == [u \in {"0", "1", "2", "3"} |->
                CASE u = "0" -> 0 [] u = "1" -> 1 [] u = "2" -> 2 [] u = "3" -> 3]

\* bool(token) of a python string: true unless the string is empty
PyBoolOfStr(s) == s # ""

convert(token) ==
    IF token = "None" THEN NoneV
    ELSE IF token \in BOOLEANS THEN BoolV(PyBoolOfStr(token))
    ELSE IF token \in DOMAIN Numerals THEN IntV(Numerals[token])
    ELSE RefV(token)

\* MacroSymbols, each expansion already split into its raw units
MacroSymbols ==
    [u \in {"!", "+", "-", "$", "sum"} |->
        CASE u = "!" -> <<"not">>
          [] u = "+" -> <<"add">>
          [] u = "-" -> <<"sub">>
          [] u = "$" -> <<"squash">>
          [] u = "sum" -> <<"add", "squash">>]

\* the tokens of the raw units es, none of them looked up in the table
RECURSIVE convertAll(_)
convertAll(es) ==
    IF es = <<>> THEN <<>> ELSE <<convert(Head(es))>> \o convertAll(Tail(es))

\* the units es with those the table names replaced by their expansions
RECURSIVE expandAll(_, _)
expandAll(es, table) ==
    IF es = <<>> THEN <<>>
    ELSE (IF Head(es) \in DOMAIN table THEN table[Head(es)] ELSE <<Head(es)>>)
         \o expandAll(Tail(es), table)

\* mutant of tokenize: the units of an expansion are looked up in the table
\* once more
tokenizeAgain(unit, table) ==
    IF unit \in DOMAIN table
    THEN convertAll(expandAll(table[unit], table))
    ELSE <<convert(unit)>>

\* what tokenize appends for one raw unit of the line
tokenize(unit, table) ==
    IF unit \in DOMAIN table
    THEN [k \in 1..Len(table[unit]) |-> convert(table[unit][k])]
    ELSE <<convert(unit)>>

---------------------------------------------------------------------------
(* Environment *)

\* the operators of DefaultOperators the model covers, by their key
DefaultOperators ==
    [name \in {"not", "and", "or", "add", "subtract", "dup", "squash", "times"} |->
        CASE name = "not" -> OpV("invert")
          [] name = "and" -> OpV("and_")
          [] name = "or" -> OpV("or_")
          [] name = "add" -> OpV("add")
          [] name = "subtract" -> OpV("subtract")
          [] name = "dup" -> OpV("dup")
          [] name = "squash" -> OpV("squash")
          [] name = "times" -> OpV("times")]

\* the host's environment (as in src/test.py)
environment == [name \in {"setbutFalse"} |-> BoolV(FALSE)]

\* self.env after __init__: environment.update(operators)
env == [name \in DOMAIN environment \cup DOMAIN DefaultOperators |->
          IF name \in DOMAIN DefaultOperators THEN DefaultOperators[name]
          ELSE environment[name]]

Modifiers == {"squash", "times"}

---------------------------------------------------------------------------
(* The heap of stacks.  Every operation takes the heap and gives a record  *)
(* with the exception it raised ("none" for none) and the heap it leaves.  *)

Active(stks) == stks[Len(stks)]
SetActive(stks, s) == [stks EXCEPT ![Len(stks)] = s]

depth(stks) == Len(Active(stks))

validref(token) == IsRef(token) /\ token.ref \in DOMAIN env

\* mutant of lookup: an unbound name resolves to None
lookupTokenLenient(token) ==
    IF IsRef(token)
    THEN IF token.ref \in DOMAIN env
         THEN [exc |-> "none", ret |-> env[token.ref]]
         ELSE [exc |-> "none", ret |-> NoneV]
    ELSE [exc |-> "none", ret |-> token]

lookupToken(token) ==
    IF IsRef(token)
    THEN IF token.ref \in DOMAIN env
         THEN [exc |-> "none", ret |-> env[token.ref]]
         ELSE [exc |-> "InvalidReference", ret |-> NoneV]
    ELSE [exc |-> "none", ret |-> token]

\* [self.lookup(item) for item in items]
lookupItems(items) ==
    IF \E k \in 1..Len(items) : lookupToken(items[k]).exc # "none"
    THEN [exc |-> "InvalidReference", items |-> <<>>]
    ELSE [exc |-> "none",
          items |-> [k \in 1..Len(items) |-> lookupToken(items[k]).ret]]

\* items[0] if len(items) == 1 else items if len(items) > 1 else None
oneAllOrNone(items) ==
    IF Len(items) = 1 THEN items[1]
    ELSE IF Len(items) > 1 THEN ListV(items)
    ELSE NoneV

\* mutant of checkstack: a shallow stack raises the wrong exception
checkstackWrongError(stks, minsize) ==
    IF depth(stks) < minsize THEN "StackOverflow" ELSE "none"

\* the exception checkstack(minsize) raises
checkstack(stks, minsize) ==
    IF depth(stks) < minsize THEN "StackUnderflow" ELSE "none"

\* mutant of lastSlice: the entries are taken from the front
lastSliceFromFront(s, n) ==
    IF n = 0 \/ n >= Len(s) THEN s ELSE SubSeq(s, 1, n)

\* python's s[-n:]: the last n entries, and all of s when n is 0
lastSlice(s, n) ==
    IF n = 0 \/ n >= Len(s) THEN s ELSE SubSeq(s, Len(s) - n + 1, Len(s))

\* mutant of frontSlice: one entry more is cut off
frontSliceOffByOne(s, n) ==
    IF n + 1 >= Len(s) THEN <<>> ELSE SubSeq(s, 1, Len(s) - n - 1)

\* python's s[:-n] for n > 0
frontSlice(s, n) ==
    IF n >= Len(s) THEN <<>> ELSE SubSeq(s, 1, Len(s) - n)

peek(stks, cnt, lk) ==
    IF checkstack(stks, cnt) # "none"
    THEN [exc |-> checkstack(stks, cnt), stacks |-> stks, items |-> <<>>,
          ret |-> NoneV]
    ELSE LET raw == lastSlice(Active(stks), cnt)
             got == IF lk THEN lookupItems(raw) ELSE [exc |-> "none", items |-> raw]
         IN  [exc |-> got.exc, stacks |-> stks, items |-> got.items,
              ret |-> oneAllOrNone(got.items)]

\* cnt is NoneV (everything) or IntV(k)
pop(stks, cnt, lk) ==
    IF IsNone(cnt)
    THEN LET got == IF lk THEN lookupItems(Active(stks))
                    ELSE [exc |-> "none", items |-> Active(stks)]
         IN  [exc |-> got.exc, stacks |-> SetActive(stks, <<>>),
              items |-> got.items, ret |-> oneAllOrNone(got.items)]
    ELSE IF checkstack(stks, cnt.int) # "none"
    THEN [exc |-> checkstack(stks, cnt.int), stacks |-> stks, items |-> <<>>,
          ret |-> NoneV]
    ELSE IF cnt.int > 0
    THEN LET raw == lastSlice(Active(stks), cnt.int)
             left == SetActive(stks, frontSlice(Active(stks), cnt.int))
             got == IF lk THEN lookupItems(raw) ELSE [exc |-> "none", items |-> raw]
         IN  [exc |-> got.exc, stacks |-> left, items |-> got.items,
              ret |-> oneAllOrNone(got.items)]
    ELSE [exc |-> "none", stacks |-> stks, items |-> <<>>, ret |-> NoneV]

\* mutant of push: the limit is tested off by one
pushOffByOne(stks, value) ==
    IF depth(stks) > STACKLIMIT
    THEN [exc |-> "StackOverflow", stacks |-> stks]
    ELSE [exc |-> "none", stacks |-> SetActive(stks, Append(Active(stks), value))]

push(stks, value) ==
    IF depth(stks) + 1 > STACKLIMIT
    THEN [exc |-> "StackOverflow", stacks |-> stks]
    ELSE [exc |-> "none", stacks |-> SetActive(stks, Append(Active(stks), value))]

\* mutant of pushstack: a full heap raises the wrong exception
pushstackWrongError(stks) ==
    IF Len(stks) + 1 > STACKDEPTH
    THEN [exc |-> "NestingException", stacks |-> stks]
    ELSE [exc |-> "none", stacks |-> Append(stks, <<>>)]

\* mutant of pushstack: the limit is tested off by one
pushstackOffByOne(stks) ==
    IF Len(stks) > STACKDEPTH
    THEN [exc |-> "RecursionOverflow", stacks |-> stks]
    ELSE [exc |-> "none", stacks |-> Append(stks, <<>>)]

pushstack(stks) ==
    IF Len(stks) + 1 > STACKDEPTH
    THEN [exc |-> "RecursionOverflow", stacks |-> stks]
    ELSE [exc |-> "none", stacks |-> Append(stks, <<>>)]

\* mutant of popstack: the last stack raises the wrong exception
popstackWrongError(stks) ==
    IF Len(stks) = 1
    THEN [exc |-> "StackUnderflow", stacks |-> stks]
    ELSE LET laststack == stks[Len(stks)]
             rest == SubSeq(stks, 1, Len(stks) - 1)
         IN  IF Len(laststack) = 1 THEN push(rest, laststack[1])
             ELSE IF Len(laststack) > 1 THEN push(rest, ListV(laststack))
             ELSE [exc |-> "none", stacks |-> rest]

\* mutant of popstack: a single entry is wrapped in a list like several
popstackAlwaysList(stks) ==
    IF Len(stks) = 1
    THEN [exc |-> "NestingException", stacks |-> stks]
    ELSE LET laststack == stks[Len(stks)]
             rest == SubSeq(stks, 1, Len(stks) - 1)
         IN  IF Len(laststack) >= 1 THEN push(rest, ListV(laststack))
             ELSE [exc |-> "none", stacks |-> rest]

popstack(stks) ==
    IF Len(stks) = 1
    THEN [exc |-> "NestingException", stacks |-> stks]
    ELSE LET laststack == stks[Len(stks)]
             rest == SubSeq(stks, 1, Len(stks) - 1)
         IN  IF Len(laststack) = 1 THEN push(rest, laststack[1])
             ELSE IF Len(laststack) > 1 THEN push(rest, ListV(laststack))
             ELSE [exc |-> "none", stacks |-> rest]

---------------------------------------------------------------------------
(* Operators *)

\* argc and lookup of each decorator: makeOperator(argc) looks its
\* arguments up, makeBareOperator(argc) does not
OperatorTable ==
    [name \in {"invert", "and_", "or_", "add", "subtract", "dup", "squash", "times"} |->
        CASE name = "invert" -> [argc |-> 1, lookup |-> TRUE, bare |-> FALSE]
          [] name = "and_" -> [argc |-> 2, lookup |-> FALSE, bare |-> TRUE]
          [] name = "or_" -> [argc |-> 2, lookup |-> FALSE, bare |-> TRUE]
          [] name = "add" -> [argc |-> 2, lookup |-> TRUE, bare |-> FALSE]
          [] name = "subtract" -> [argc |-> 2, lookup |-> TRUE, bare |-> FALSE]
          [] name = "dup" -> [argc |-> 0, lookup |-> FALSE, bare |-> TRUE]
          [] name = "squash" -> [argc |-> 0, lookup |-> FALSE, bare |-> TRUE]
          [] name = "times" -> [argc |-> 1, lookup |-> FALSE, bare |-> TRUE]]

invert(a) == [exc |-> "none", ret |-> BoolV(~Truthy(a))]

\* a + b: numbers add, lists concatenate, anything else is a TypeError
add(a, b) ==
    IF IsNum(a) /\ IsNum(b) THEN [exc |-> "none", ret |-> IntV(Num(a) + Num(b))]
    ELSE IF IsList(a) /\ IsList(b) THEN [exc |-> "none", ret |-> ListV(a.list \o b.list)]
    ELSE [exc |-> "TypeError", ret |-> NoneV]

subtract(a, b) ==
    IF IsNum(a) /\ IsNum(b) THEN [exc |-> "none", ret |-> IntV(Num(a) - Num(b))]
    ELSE [exc |-> "TypeError", ret |-> NoneV]

\* the wrapper of makeOperator around a function that returns a value
makeOperator(name, stks) ==
    LET argv == pop(stks, IntV(OperatorTable[name].argc), OperatorTable[name].lookup)
        out == CASE name = "invert" -> invert(argv.items[1])
                 [] name = "add" -> add(argv.items[1], argv.items[2])
                 [] name = "subtract" -> subtract(argv.items[1], argv.items[2])
    IN  IF argv.exc # "none" THEN [exc |-> argv.exc, stacks |-> argv.stacks]
        ELSE IF out.exc # "none" THEN [exc |-> out.exc, stacks |-> argv.stacks]
        ELSE push(argv.stacks, out.ret)

\* what a short-circuit operator pushes: the first operand a is looked up;
\* when its truth value is `decides` the constant `short` is pushed and b is
\* not looked up, otherwise b is looked up and pushed
shortCircuit(stks, a, b, decides, short) ==
    IF lookupToken(a).exc # "none"
    THEN [exc |-> lookupToken(a).exc, stacks |-> stks]
    ELSE IF Truthy(lookupToken(a).ret) = decides
    THEN push(stks, BoolV(short))
    ELSE IF lookupToken(b).exc # "none"
    THEN [exc |-> lookupToken(b).exc, stacks |-> stks]
    ELSE push(stks, lookupToken(b).ret)

\* the wrapper of makeBareOperator(2) handing what it popped to and_ / or_
bareOnTwo(argv, decides, short) ==
    IF argv.exc # "none" THEN [exc |-> argv.exc, stacks |-> argv.stacks]
    ELSE shortCircuit(argv.stacks, argv.items[1], argv.items[2], decides, short)

\* mutant of and_: the wrapper looks both operands up before the test
and_Eager(stks) == bareOnTwo(pop(stks, IntV(2), TRUE), FALSE, FALSE)

\* and_ under its makeBareOperator(2) wrapper:
\* P.push(P.lookup(b) if P.lookup(a) else False)
and_(stks) == bareOnTwo(pop(stks, IntV(2), FALSE), FALSE, FALSE)

\* or_ under its makeBareOperator(2) wrapper:
\* P.push(P.lookup(b) if not P.lookup(a) else True)
or_(stks) == bareOnTwo(pop(stks, IntV(2), FALSE), TRUE, TRUE)

\* dup under its makeBareOperator(0) wrapper: P.push(P.peek())
dup(stks) ==
    LET argv == pop(stks, IntV(0), FALSE)
        top == peek(argv.stacks, 1, TRUE)
    IN  IF top.exc # "none" THEN [exc |-> top.exc, stacks |-> top.stacks]
        ELSE push(top.stacks, top.ret)

\* a frame of a modifier call in progress: the modifier, the argument its
\* wrapper popped, how many of its calls of lastop have returned, and (as
\* history) the depth of the active stack when its loop started and the
\* heap the modifier was called on
Frame(name, arg, d0, h0) ==
    [op |-> name, arg |-> arg, i |-> 0, d0 |-> d0, h0 |-> h0]

\* mutant of loopBound: squash's range is one short
loopBoundShort(f) == IF f.op = "squash" THEN INFLIMIT - 1 ELSE Num(f.arg) - 1

\* the range() a modifier's loop runs over
loopBound(f) == IF f.op = "squash" THEN INFLIMIT ELSE Num(f.arg) - 1

\* times up to its loop: the wrapper's pop, the assert and the INFLIMIT test
timesEntry(stks) ==
    LET argv == pop(stks, IntV(1), FALSE)
    IN  IF argv.exc # "none" THEN [exc |-> argv.exc, stacks |-> argv.stacks, arg |-> NoneV]
        ELSE IF ~PyGt(argv.items[1], 0)
        THEN [exc |-> "AssertionError", stacks |-> argv.stacks, arg |-> NoneV]
        ELSE IF PyGt(argv.items[1], INFLIMIT)
        THEN [exc |-> "IterationOverflow", stacks |-> argv.stacks, arg |-> NoneV]
        ELSE [exc |-> "none", stacks |-> argv.stacks, arg |-> argv.items[1]]

\* Calling operator `name` (or None, which is not callable) with `callers`
\* modifier frames below it: "done" when it returned, "raise" when it
\* raised, "enter" when a modifier reached its loop
call(name, stks, callers) ==
    IF name = "None"
    THEN [what |-> "raise", exc |-> "TypeError", stacks |-> stks, arg |-> NoneV]
    ELSE IF name \in Modifiers /\ Len(callers) >= MaxCallDepth
    THEN [what |-> "raise", exc |-> "RuntimeError", stacks |-> stks, arg |-> NoneV]
    ELSE IF name = "squash"
    THEN [what |-> "enter", exc |-> "none", stacks |-> pop(stks, IntV(0), FALSE).stacks,
          arg |-> NoneV]
    ELSE IF name = "times"
    THEN LET e == timesEntry(stks)
         IN  [what |-> IF e.exc = "none" THEN "enter" ELSE "raise",
              exc |-> e.exc, stacks |-> e.stacks, arg |-> e.arg]
    ELSE LET r == CASE name = "dup" -> dup(stks)
                    [] name = "and_" -> and_(stks)
                    [] name = "or_" -> or_(stks)
                    [] OTHER -> makeOperator(name, stks)
         IN  [what |-> IF r.exc = "none" THEN "done" ELSE "raise",
              exc |-> r.exc, stacks |-> r.stacks, arg |-> NoneV]

\* mutant of catches: squash's handler takes every exception
catchesAll(f, exc) == f.op = "squash"

\* mutant of catches: squash's handler names the wrong exception
catchesOverflow(f, exc) == f.op = "squash" /\ exc = "StackOverflow"

\* the exceptions a frame's modifier catches around its loop
catches(f, exc) == f.op = "squash" /\ exc = "StackUnderflow"

\* the innermost of `callers` that catches exc, 0 when none does
catcher(callers, exc) ==
    LET ks == {k \in 1..Len(callers) : catches(callers[k], exc)}
    IN  IF ks = {} THEN 0 ELSE CHOOSE k \in ks : \A j \in ks : j <= k

---------------------------------------------------------------------------
(* The interpreter *)

\* the raw units a line is made of
Units == {"1", "2", "True", "False", "cake", "setbutFalse", "(", ")",
          "add", "not", "and", "or", "dup", "squash", "times", "sum", "-"}

\* the count arguments eval is called with
Counts == {NoneV, IntV(0), IntV(1), IntV(2)}

NoEv == [what |-> "none", op |-> "None", exc |-> "none", frames |-> <<>>,
         heap |-> <<>>]

Init ==
    /\ STACKLIMIT \in Limits
    /\ STACKDEPTH \in 1..MaxDepth
    /\ INFLIMIT \in Limits
    /\ macros = MacroSymbols
    /\ stacks = <<>>
    /\ lastop = "None"
    /\ tokens = <<>>
    /\ frames = <<>>
    /\ status = "idle"
    /\ result = NoneV
    /\ count = IntV(1)
    /\ lookup = TRUE
    /\ nunits = 0
    /\ ev = NoEv

Config == <<STACKLIMIT, STACKDEPTH, INFLIMIT, macros>>

\* makeoperator's test: the token names a wrapped operator of the environment
isoperator(token) ==
    /\ IsRef(token)
    /\ token.ref \in DOMAIN env
    /\ IsOp(env[token.ref])

\* a call made from `callers` returned: makeoperator records the operator
\* it ran (`ran`), a modifier's loop goes on to its next round
Resume(callers, stks, ran) ==
    /\ stacks' = stks
    /\ status' = "running"
    /\ IF callers = <<>>
       THEN frames' = <<>> /\ lastop' = ran
       ELSE /\ frames' = [callers EXCEPT ![Len(callers)].i = @ + 1]
            /\ lastop' = lastop

\* an exception reached eval's caller
Abort(stks, exc) ==
    /\ stacks' = stks
    /\ status' = exc
    /\ frames' = <<>>
    /\ lastop' = lastop

\* an exception raised in a call made from `callers`
Raise(callers, stks, exc) ==
    LET k == catcher(callers, exc)
    IN  IF k = 0 THEN Abort(stks, exc)
        ELSE Resume(SubSeq(callers, 1, k - 1), stks, callers[1].op)

\* the outcome o of calling operator `name` from `callers`
Settle(callers, name, o) ==
    /\ ev' = [what |-> o.what, op |-> name, exc |-> o.exc, frames |-> callers,
              heap |-> stacks]
    /\ CASE o.what = "done" ->
                Resume(callers, o.stacks, IF callers = <<>> THEN name ELSE callers[1].op)
         [] o.what = "enter" ->
                /\ frames' = Append(callers, Frame(name, o.arg, depth(o.stacks), stacks))
                /\ stacks' = o.stacks
                /\ UNCHANGED <<lastop, status>>
         [] o.what = "raise" -> Raise(callers, o.stacks, o.exc)

\* mutant of Eval: lastop is not reset
EvalKeepsLastop ==
    /\ status # "running"
    /\ stacks' = << <<>> >>
    /\ lastop' = lastop
    /\ tokens' = <<>>
    /\ frames' = <<>>
    /\ status' = "running"
    /\ result' = NoneV
    /\ count' = IntV(1)
    /\ lookup' = TRUE
    /\ nunits' = 0
    /\ ev' = [what |-> "eval", op |-> lastop, exc |-> "none", frames |-> <<>>,
              heap |-> stacks]
    /\ UNCHANGED Config

\* eval up to its loop: a new heap, lastop reset; ev keeps (as history)
\* the heap and the lastop the call found
Eval ==
    /\ status # "running"
    /\ stacks' = << <<>> >>
    /\ lastop' = "None"
    /\ tokens' = <<>>
    /\ frames' = <<>>
    /\ status' = "running"
    /\ result' = NoneV
    /\ count' = IntV(1)
    /\ lookup' = TRUE
    /\ nunits' = 0
    /\ ev' = [what |-> "eval", op |-> lastop, exc |-> "none", frames |-> <<>>,
              heap |-> stacks]
    /\ UNCHANGED Config

\* the line's next raw unit, tokenized; ev keeps (as history) the unit
ReadUnit(unit) ==
    /\ status = "running" /\ frames = <<>> /\ tokens = <<>>
    /\ nunits < MaxUnits
    /\ tokens' = tokenize(unit, macros)
    /\ nunits' = nunits + 1
    /\ ev' = [what |-> "read", op |-> unit, exc |-> "none", frames |-> <<>>,
              heap |-> stacks]
    /\ UNCHANGED <<Config, stacks, lastop, frames, status, result, count, lookup>>

AtToken == status = "running" /\ frames = <<>> /\ tokens # <<>>

\* what is left of the token list after the step
Consume == tokens' = IF status' = "running" THEN Tail(tokens) ELSE <<>>

\* the units read are counted while an eval runs
Position == nunits' = IF status' = "running" THEN nunits ELSE 0

\* inside a modifier's loop the token list is not touched
Keep == tokens' = IF status' = "running" THEN tokens ELSE <<>>

EvalPushStack ==
    /\ AtToken
    /\ Head(tokens) = RefV(PUSHTOKEN)
    /\ LET r == pushstack(stacks)
       IN  IF r.exc = "none"
           THEN stacks' = r.stacks /\ UNCHANGED <<status, frames, lastop>>
           ELSE Abort(r.stacks, r.exc)
    /\ Consume
    /\ ev' = NoEv
    /\ Position
    /\ UNCHANGED <<Config, result, count, lookup>>

EvalPopStack ==
    /\ AtToken
    /\ Head(tokens) = RefV(POPTOKEN)
    /\ LET r == popstack(stacks)
       IN  IF r.exc = "none"
           THEN stacks' = r.stacks /\ UNCHANGED <<status, frames, lastop>>
           ELSE Abort(r.stacks, r.exc)
    /\ Consume
    /\ ev' = NoEv
    /\ Position
    /\ UNCHANGED <<Config, result, count, lookup>>

\* makeoperator found an operator: it runs it and records it as lastop
EvalOperator ==
    /\ AtToken
    /\ Head(tokens) \notin {RefV(PUSHTOKEN), RefV(POPTOKEN)}
    /\ isoperator(Head(tokens))
    /\ LET name == env[Head(tokens).ref].op
       IN  Settle(<<>>, name, call(name, stacks, <<>>))
    /\ Consume
    /\ Position
    /\ UNCHANGED <<Config, result, count, lookup>>

\* a literal, or a reference makeoperator did not take: pushed as it is
EvalPush ==
    /\ AtToken
    /\ Head(tokens) \notin {RefV(PUSHTOKEN), RefV(POPTOKEN)}
    /\ ~isoperator(Head(tokens))
    /\ LET r == push(stacks, Head(tokens))
       IN  IF r.exc = "none"
           THEN stacks' = r.stacks /\ UNCHANGED <<status, frames, lastop>>
           ELSE Abort(r.stacks, r.exc)
    /\ Consume
    /\ ev' = NoEv
    /\ Position
    /\ UNCHANGED <<Config, result, count, lookup>>

InLoop == status = "running" /\ frames # <<>>

\* one round of the innermost modifier's loop: P.lastop(P)
ModifierCall ==
    /\ InLoop
    /\ frames[Len(frames)].i < loopBound(frames[Len(frames)])
    /\ Settle(frames, lastop, call(lastop, stacks, frames))
    /\ Keep
    /\ Position
    /\ UNCHANGED <<Config, result, count, lookup>>

\* the innermost modifier's loop ran out: squash's for-else raises, times
\* returns
ModifierLoopEnd ==
    /\ InLoop
    /\ frames[Len(frames)].i >= loopBound(frames[Len(frames)])
    /\ LET f == frames[Len(frames)]
       IN  IF f.op = "squash"
           THEN /\ Raise(frames, stacks, "IterationOverflow")
                /\ ev' = [what |-> "loopend", op |-> f.op, exc |-> "IterationOverflow",
                          frames |-> frames, heap |-> stacks]
           ELSE /\ Resume(SubSeq(frames, 1, Len(frames) - 1), stacks, frames[1].op)
                /\ ev' = [what |-> "loopend", op |-> f.op, exc |-> "none",
                          frames |-> frames, heap |-> stacks]
    /\ Keep
    /\ Position
    /\ UNCHANGED <<Config, result, count, lookup>>

\* the token list is used up: the nesting test and the final pop
EvalFinish(cnt, lk) ==
    /\ status = "running" /\ frames = <<>> /\ tokens = <<>>
    /\ count' = cnt
    /\ lookup' = lk
    /\ IF Len(stacks) # 1
       THEN Abort(stacks, "NestingException") /\ result' = NoneV
       ELSE LET r == pop(stacks, cnt, lk)
            IN  IF r.exc # "none"
                THEN Abort(r.stacks, r.exc) /\ result' = NoneV
                ELSE /\ stacks' = r.stacks
                     /\ status' = "returned"
                     /\ result' = r.ret
                     /\ UNCHANGED <<frames, lastop>>
    /\ ev' = NoEv
    /\ Position
    /\ UNCHANGED <<Config, tokens>>

Next ==
    \/ Eval
    \/ \E unit \in Units : ReadUnit(unit)
    \/ EvalPushStack
    \/ EvalPopStack
    \/ EvalOperator
    \/ EvalPush
    \/ ModifierCall
    \/ ModifierLoopEnd
    \/ \E cnt \in Counts, lk \in BOOLEAN : EvalFinish(cnt, lk)

Spec == Init /\ [][Next]_vars

---------------------------------------------------------------------------
(* The operator API of the heap, called one method at a time on the heap an *)
(* eval has set up: what operators (default and custom) do with the stack.  *)
(* status is "returned" or the exception of the last call, result what it   *)
(* returned, count and lookup its arguments, ev.what its name and ev.heap   *)
(* the heap it found.                                                       *)

\* the entries the calls push
HeapValues == {IntV(1), IntV(2), RefV("cake"), RefV("setbutFalse")}

\* the count arguments of peek
PeekCounts == 0..(MaxLimit + 1)

\* the count arguments of pop
PopCounts == {NoneV} \cup {IntV(n) : n \in PeekCounts}

\* the heap as eval sets it up before its loop
InitHeap ==
    /\ STACKLIMIT \in Limits
    /\ STACKDEPTH \in 1..MaxDepth
    /\ INFLIMIT \in Limits
    /\ macros = MacroSymbols
    /\ stacks = << <<>> >>
    /\ lastop = "None"
    /\ tokens = <<>>
    /\ frames = <<>>
    /\ status = "running"
    /\ result = NoneV
    /\ count = IntV(1)
    /\ lookup = TRUE
    /\ nunits = 0
    /\ ev = NoEv

\* a method was called with (cnt, lk) and gave r; nunits counts the calls
Called(what, r, ret, cnt, lk) ==
    /\ nunits < MaxCalls
    /\ nunits' = nunits + 1
    /\ stacks' = r.stacks
    /\ status' = IF r.exc = "none" THEN "returned" ELSE r.exc
    /\ result' = IF r.exc = "none" THEN ret ELSE NoneV
    /\ count' = cnt
    /\ lookup' = lk
    /\ ev' = [what |-> what, op |-> "None", exc |-> r.exc, frames |-> <<>>,
              heap |-> stacks]
    /\ UNCHANGED <<Config, lastop, tokens, frames>>

CallPush(value) == Called("push", push(stacks, value), NoneV, IntV(1), TRUE)

CallPushStack == Called("pushstack", pushstack(stacks), NoneV, IntV(1), TRUE)

CallPopStack == Called("popstack", popstack(stacks), NoneV, IntV(1), TRUE)

CallPop(cnt, lk) ==
    LET r == pop(stacks, cnt, lk) IN Called("pop", r, r.ret, cnt, lk)

CallPeek(n, lk) ==
    LET r == peek(stacks, n, lk) IN Called("peek", r, r.ret, IntV(n), lk)

NextHeap ==
    \/ \E value \in HeapValues : CallPush(value)
    \/ CallPushStack
    \/ CallPopStack
    \/ \E cnt \in PopCounts, lk \in BOOLEAN : CallPop(cnt, lk)
    \/ \E n \in PeekCounts, lk \in BOOLEAN : CallPeek(n, lk)

SpecHeap == InitHeap /\ [][NextHeap]_vars

---------------------------------------------------------------------------
(* Claims *)

Top(fs) == fs[Len(fs)]

\* the calls of lastop frame k has started: those that returned, and the
\* one in progress when a frame sits above it
Started(k) == frames[k].i + (IF k < Len(frames) THEN 1 ELSE 0)

C1_Bounded ==
    \A k \in 1..Len(frames) : frames[k].op = "squash" => Started(k) <= INFLIMIT

C1_UnderflowEnds ==
    (/\ ev.what = "raise"
     /\ ev.exc = "StackUnderflow"
     /\ ev.frames # <<>>
     /\ Top(ev.frames).op = "squash")
    => /\ status = "running"
       /\ Len(frames) = Len(ev.frames) - 1
       /\ Len(ev.frames) = 1 => lastop = "squash"

C1_Overflow ==
    (ev.what = "loopend" /\ ev.op = "squash")
    => /\ status = "IterationOverflow"
       /\ Top(ev.frames).i = INFLIMIT

C1_FullLoopFails ==
    (InLoop /\ Top(frames).op = "squash" /\ Top(frames).i = INFLIMIT)
    => status' = "IterationOverflow"

\* C1: squash calls lastop at most INFLIMIT times; the first StackUnderflow
\* lastop raises ends the loop and squash returns normally, eval going on
\* with the next token; when INFLIMIT calls have all returned, squash raises
\* IterationOverflow.
C1_Squash ==
    /\ [](C1_Bounded /\ C1_UnderflowEnds /\ C1_Overflow)
    /\ [][C1_FullLoopFails]_vars

\* C1 witness: squash repeated lastop at least once, then lastop raised
\* StackUnderflow and eval went on.
C1_Witness ==
    /\ ev.what = "raise"
    /\ ev.exc = "StackUnderflow"
    /\ Len(ev.frames) = 1
    /\ Top(ev.frames).op = "squash"
    /\ Top(ev.frames).i >= 1
    /\ status = "running"
    /\ lastop = "squash"

\* C2 (as claimed): no step taken while a modifier runs changes lastop, so
\* after the dispatcher ran a modifier lastop is the non-modifier operator
\* it held before.
C2_ModifierKeepsLastop ==
    [][(frames # <<>> /\ lastop \notin Modifiers \cup {"None"}) => lastop' = lastop]_vars

\* C3: while and after an eval the heap holds between 1 and STACKDEPTH
\* stacks, and eval returns only from a heap of exactly one stack.
C3_HeapSize ==
    /\ status # "idle" => (Len(stacks) >= 1 /\ Len(stacks) <= STACKDEPTH)
    /\ status = "returned" => Len(stacks) = 1

\* C3 witness: an eval that opened and closed a bracket returned the folded
\* stack.
C3_Witness ==
    /\ status = "returned"
    /\ IsList(result)
    /\ lastop = "None"

AtBracket(name) == AtToken /\ Head(tokens) = RefV(name)

\* the step is eval's end: the token list is used up and eval leaves
AtEnd == status = "running" /\ frames = <<>> /\ tokens = <<>> /\ status' # "running"

C4_TooManyCloses ==
    (AtBracket(POPTOKEN) /\ Len(stacks) = 1)
    => (status' = "NestingException" /\ result' = NoneV)

C4_TooFewCloses ==
    (AtEnd /\ Len(stacks) > 1)
    => (status' = "NestingException" /\ result' = NoneV)

\* C4: a close bracket met while the heap holds one stack raises
\* NestingException at that token, and a token list that ends while the heap
\* holds more than one stack raises it at the end of eval; nothing is
\* returned.
C4_Unbalanced == [][C4_TooManyCloses /\ C4_TooFewCloses]_vars

\* C4 witness: eval ended with an open bracket left and raised
\* NestingException.
C4_Witness ==
    /\ status = "NestingException"
    /\ Len(stacks) = 2
    /\ result = NoneV

C5_Bounded ==
    status # "idle" => \A k \in 1..Len(stacks) : Len(stacks[k]) <= STACKLIMIT

C5_OverflowOnlyWhenFull ==
    status = "StackOverflow" => depth(stacks) = STACKLIMIT

\* a token eval pushes as it is: a literal, or a reference that names no
\* operator
AtPlainToken ==
    /\ AtToken
    /\ Head(tokens) \notin {RefV(PUSHTOKEN), RefV(POPTOKEN)}
    /\ ~isoperator(Head(tokens))

C5_TokenPush ==
    AtPlainToken
    => IF depth(stacks) >= STACKLIMIT
       THEN status' = "StackOverflow" /\ stacks' = stacks
       ELSE /\ status' = "running"
            /\ stacks' = SetActive(stacks, Append(Active(stacks), Head(tokens)))

\* C5: no stack of the heap ever holds more than STACKLIMIT entries; a push
\* raises StackOverflow only onto an active stack that holds STACKLIMIT
\* entries, and a token pushed onto a stack with fewer entries goes on it.
C5_StackLimit ==
    /\ [](C5_Bounded /\ C5_OverflowOnlyWhenFull)
    /\ [][C5_TokenPush]_vars

\* C5 witness: STACKLIMIT literals were pushed and one more raised
\* StackOverflow.
C5_Witness ==
    /\ status = "StackOverflow"
    /\ STACKLIMIT = 3
    /\ lastop = "None"
    /\ Len(stacks) = 1
    /\ Len(stacks[1]) = 3
    /\ \A k \in 1..3 : IsInt(stacks[1][k])

C6_PushFrame ==
    AtBracket(PUSHTOKEN)
    => IF Len(stacks) >= STACKDEPTH
       THEN status' = "RecursionOverflow" /\ stacks' = stacks
       ELSE status' = "running" /\ stacks' = Append(stacks, <<>>)

C6_OnlyWhenFull ==
    status = "RecursionOverflow" => Len(stacks) = STACKDEPTH

\* C6: an open bracket raises RecursionOverflow exactly when the heap
\* already holds STACKDEPTH stacks; otherwise it appends one empty stack,
\* which becomes the active one, and leaves the others as they were.
C6_StackDepth == []C6_OnlyWhenFull /\ [][C6_PushFrame]_vars

\* C6 witness: with STACKDEPTH = 2, one bracket was opened and a second one
\* raised RecursionOverflow.
C6_Witness ==
    /\ status = "RecursionOverflow"
    /\ STACKDEPTH = 2
    /\ Len(stacks) = 2

\* what the fold of a removed stack pushes onto the stack below it
Folded(below, removed) ==
    IF Len(removed) = 1 THEN Append(below, removed[1])
    ELSE IF Len(removed) > 1 THEN Append(below, ListV(removed))
    ELSE below

C7_PopFrame ==
    (AtBracket(POPTOKEN) /\ Len(stacks) >= 2)
    => LET n == Len(stacks)
           below == stacks[n - 1]
           removed == stacks[n]
       IN  /\ Len(stacks') = n - 1
           /\ \A k \in 1..(n - 2) : stacks'[k] = stacks[k]
           /\ IF Len(removed) > 0 /\ Len(below) >= STACKLIMIT
              THEN status' = "StackOverflow" /\ stacks'[n - 1] = below
              ELSE status' = "running" /\ stacks'[n - 1] = Folded(below, removed)

\* C7: a close bracket on a heap of two or more stacks removes the active
\* stack and folds it into the one below: one entry is pushed as it is,
\* several are pushed as one list holding them in order, none pushes
\* nothing; the entries the stack below held stay, and it grows by at most
\* one (the push raising StackOverflow when that stack is full).
C7_Fold == [][C7_PopFrame]_vars

\* C7 witness: a bracket holding several entries was closed and the stack
\* below received them as one list.
C7_Witness ==
    /\ status = "running"
    /\ lastop = "None"
    /\ Len(stacks) = 1
    /\ Len(stacks[1]) = 2
    /\ IsInt(stacks[1][1])
    /\ IsList(stacks[1][2])
    /\ Len(stacks[1][2].list) = 2

\* the count on top of the active stack when the times token is met
AtTimes(n) ==
    /\ AtBracket("times")
    /\ depth(stacks) >= 1
    /\ Active(stacks)[depth(stacks)] = IntV(n)

C8_Exact ==
    (ev.what = "loopend" /\ ev.op = "times")
    => /\ status = "running"
       /\ Top(ev.frames).i = Num(Top(ev.frames).arg) - 1
       /\ Num(Top(ev.frames).arg) >= 1
       /\ Num(Top(ev.frames).arg) <= INFLIMIT

C8_NoMore ==
    \A k \in 1..Len(frames) :
        frames[k].op = "times" => Started(k) <= Num(frames[k].arg) - 1

C8_TooMany ==
    \A n \in 1..(MaxLimit + 2) :
        (AtTimes(n) /\ n > INFLIMIT)
        => (status' = "IterationOverflow" /\ ev'.what = "raise" /\ frames' = <<>>)

C8_UnderflowFails ==
    (/\ ev.what = "raise"
     /\ ev.exc = "StackUnderflow"
     /\ ev.frames # <<>>
     /\ Top(ev.frames).op = "times")
    => status = "StackUnderflow"

\* C8 (as claimed): times with a count N from 1 to INFLIMIT calls lastop
\* N-1 times and no more; with N above INFLIMIT it raises IterationOverflow
\* without calling lastop; a StackUnderflow lastop raises during the repeats
\* is not caught and ends eval with StackUnderflow.
C8_Times ==
    /\ [](C8_Exact /\ C8_NoMore /\ C8_UnderflowFails)
    /\ [][C8_TooMany]_vars

\* the parts of C8 that do not concern the underflow
C8_Counting == [](C8_Exact /\ C8_NoMore) /\ [][C8_TooMany]_vars

\* the last step was taken by a squash the dispatcher ran
BySquash ==
    /\ Len(ev.frames) = 1
    /\ Top(ev.frames).op = "squash"

\* C9 (as claimed): for every STACKLIMIT and INFLIMIT, squash repeating add
\* never raises IterationOverflow.
C9_NeverOverflows ==
    ~(ev.what = "loopend" /\ BySquash /\ lastop = "add" /\ status = "IterationOverflow")

C9_OverflowOnlyBeyondLimit ==
    (ev.what = "loopend" /\ BySquash /\ lastop = "add")
    => Top(ev.frames).d0 > INFLIMIT

C9_WithinLimit ==
    (InLoop /\ Len(frames) = 1 /\ Top(frames).op = "squash" /\ lastop = "add"
        /\ Top(frames).d0 <= INFLIMIT)
    => /\ Top(frames).i < INFLIMIT
       /\ depth(stacks) + Top(frames).i = Top(frames).d0

C9_OneLeft ==
    (/\ ev.what = "raise"
     /\ ev.exc = "StackUnderflow"
     /\ ev.op = "add"
     /\ BySquash
     /\ Top(ev.frames).d0 >= 1)
    => /\ status = "running"
       /\ depth(stacks) = 1
       /\ Top(ev.frames).i = Top(ev.frames).d0 - 1

C9_NumbersSucceed ==
    (/\ InLoop /\ Len(frames) = 1 /\ Top(frames).op = "squash" /\ lastop = "add"
     /\ Top(frames).d0 <= INFLIMIT
     /\ \A k \in 1..depth(stacks) : IsNum(Active(stacks)[k]))
    => status' = "running"

\* C9 (amended): add run on an active stack of n entries, n >= 2, followed
\* by squash, with n - 1 <= INFLIMIT: squash does not raise
\* IterationOverflow; on numbers every repeat of add succeeds until fewer
\* than two entries remain; and when squash ends on add's StackUnderflow it
\* has run add n - 2 times and leaves exactly one entry.
C9_SquashAdd ==
    /\ [](C9_OverflowOnlyBeyondLimit /\ C9_WithinLimit /\ C9_OneLeft)
    /\ [][C9_NumbersSucceed]_vars

\* C9 witness: squash ran add at least once with INFLIMIT just large
\* enough, add then raised StackUnderflow and one entry is left.
C9_Witness ==
    /\ ev.what = "raise"
    /\ ev.exc = "StackUnderflow"
    /\ ev.op = "add"
    /\ BySquash
    /\ Top(ev.frames).i >= 1
    /\ Top(ev.frames).d0 = INFLIMIT
    /\ status = "running"
    /\ depth(stacks) = 1

\* the call of lastop that raised was made inside a squash loop
RaisedInSquash ==
    /\ ev.what = "raise"
    /\ \E k \in 1..Len(ev.frames) : ev.frames[k].op = "squash"

\* C10: an exception other than StackUnderflow that lastop raises inside a
\* squash loop reaches eval's caller as it is.
C10_OthersPropagate ==
    (RaisedInSquash /\ ev.exc # "StackUnderflow") => status = ev.exc

\* C10 witness: squash repeated dup until a push raised StackOverflow, and
\* eval raised StackOverflow.
C10_Witness ==
    /\ RaisedInSquash
    /\ ev.exc = "StackOverflow"
    /\ ev.op = "dup"
    /\ Top(ev.frames).i >= 1
    /\ status = "StackOverflow"

---------------------------------------------------------------------------
(* Claims about operators and references *)

\* the last step called operator function `name` on a stack deep enough for
\* its two operands
CalledOnTwo(name) ==
    /\ ev.op = name
    /\ ev.what \in {"done", "raise"}
    /\ depth(ev.heap) >= 2

\* the operands the call found, the second one on top, and what lay below
FirstOperand == Active(ev.heap)[depth(ev.heap) - 1]
SecondOperand == Active(ev.heap)[depth(ev.heap)]
BelowOperands == SubSeq(Active(ev.heap), 1, depth(ev.heap) - 2)

\* the call returned and left v in place of its two operands
Pushed(v) ==
    /\ ev.what = "done"
    /\ stacks = SetActive(ev.heap, Append(BelowOperands, v))

C11_FirstResolved ==
    ((CalledOnTwo("and_") \/ CalledOnTwo("or_"))
        /\ lookupToken(FirstOperand).exc # "none")
    => (ev.what = "raise" /\ ev.exc = "InvalidReference")

C11_AndShort ==
    (/\ CalledOnTwo("and_")
     /\ lookupToken(FirstOperand).exc = "none"
     /\ ~Truthy(lookupToken(FirstOperand).ret))
    => Pushed(BoolV(FALSE))

C11_OrShort ==
    (/\ CalledOnTwo("or_")
     /\ lookupToken(FirstOperand).exc = "none"
     /\ Truthy(lookupToken(FirstOperand).ret))
    => Pushed(BoolV(TRUE))

C11_Otherwise ==
    (/\ CalledOnTwo("and_") \/ CalledOnTwo("or_")
     /\ lookupToken(FirstOperand).exc = "none"
     /\ Truthy(lookupToken(FirstOperand).ret) <=> ev.op = "and_")
    => IF lookupToken(SecondOperand).exc = "none"
       THEN Pushed(lookupToken(SecondOperand).ret)
       ELSE ev.what = "raise" /\ ev.exc = "InvalidReference"

\* C11: and / or take their two operands off the stack unresolved and
\* resolve the first; and with a false first operand pushes False, or with a
\* true first operand pushes True, whatever the second operand is (an
\* unbound Reference included); otherwise the second operand is resolved and
\* its value pushed.
C11_ShortCircuit ==
    C11_FirstResolved /\ C11_AndShort /\ C11_OrShort /\ C11_Otherwise

\* C11 witness: and found a Reference bound to False below an unbound
\* Reference and pushed False.
C11_Witness ==
    /\ CalledOnTwo("and_")
    /\ FirstOperand = RefV("setbutFalse")
    /\ SecondOperand = RefV("cake")
    /\ Pushed(BoolV(FALSE))

\* a Reference the environment does not bind
Unbound(v) == IsRef(v) /\ v.ref \notin DOMAIN env

\* a Reference makeoperator does not take for an operator: its name is
\* absent from the environment or bound to something that is no operator
NotDispatched(v) ==
    /\ IsRef(v)
    /\ v.ref \notin {PUSHTOKEN, POPTOKEN}
    /\ v.ref \notin DOMAIN env \/ ~IsOp(env[v.ref])

\* the value a stack entry stands for once its name is known to be bound
Bound(v) == IF IsRef(v) THEN env[v.ref] ELSE v

C12_PushedAsReference ==
    (AtToken /\ NotDispatched(Head(tokens)))
    => /\ lastop' = lastop
       /\ ev'.what = "none"
       /\ IF depth(stacks) < STACKLIMIT
          THEN /\ status' = "running"
               /\ stacks' = SetActive(stacks, Append(Active(stacks), Head(tokens)))
          ELSE status' = "StackOverflow"

\* not (invert) is an operator whose argument is looked up
C12_ArgumentLookup ==
    (ev.what \in {"done", "raise"} /\ ev.op = "invert" /\ depth(ev.heap) >= 1
        /\ NotDispatched(SecondOperand))
    => IF Unbound(SecondOperand)
       THEN ev.what = "raise" /\ ev.exc = "InvalidReference"
       ELSE /\ ev.what = "done"
            /\ stacks = SetActive(ev.heap,
                    Append(SubSeq(Active(ev.heap), 1, depth(ev.heap) - 1),
                           BoolV(~Truthy(env[SecondOperand.ref]))))

C12_ResultLookup ==
    (AtEnd /\ Len(stacks) = 1 /\ lookup' /\ count' = IntV(1) /\ depth(stacks) >= 1
        /\ NotDispatched(Active(stacks)[depth(stacks)]))
    => IF Unbound(Active(stacks)[depth(stacks)])
       THEN status' = "InvalidReference" /\ result' = NoneV
       ELSE status' = "returned" /\ result' = env[Active(stacks)[depth(stacks)].ref]

\* C12: a Reference token, not a bracket, whose name the environment does
\* not bind or binds to a value that is no operator is not dispatched: eval
\* pushes it as a Reference (StackOverflow on a full stack) and lastop stays;
\* when an operator's argument lookup or eval's final pop with lookup set
\* resolves it, an unbound name raises InvalidReference and a bound name
\* gives its value.
C12_References ==
    /\ []C12_ArgumentLookup
    /\ [][C12_PushedAsReference /\ C12_ResultLookup]_vars

\* C12 witness: the name bound to False was pushed as a Reference, and the
\* argument lookup of not resolved it to its value.
C12_Witness ==
    /\ ev.op = "invert"
    /\ ev.what = "done"
    /\ depth(ev.heap) >= 1
    /\ SecondOperand = RefV("setbutFalse")
    /\ Active(stacks)[depth(stacks)] = BoolV(TRUE)
    /\ lastop = "invert"

\* the last step was eval's dispatch of an operator
Dispatched ==
    /\ ev.what \in {"done", "raise", "enter"}
    /\ ev.frames = <<>>

\* C13: an operator of arity k dispatched on an active stack of fewer than
\* k entries ends eval with StackUnderflow and no result, whatever the other
\* stacks of the heap hold.
C13_Underflow ==
    (Dispatched /\ depth(ev.heap) < OperatorTable[ev.op].argc)
    => /\ ev.what = "raise"
       /\ ev.exc = "StackUnderflow"
       /\ status = "StackUnderflow"
       /\ result = NoneV

\* C13 witness: add was dispatched inside a bracket holding one entry, the
\* stack below holding another, and eval raised StackUnderflow.
C13_Witness ==
    /\ Dispatched
    /\ ev.op = "add"
    /\ Len(ev.heap) = 2
    /\ Len(ev.heap[1]) = 1
    /\ Len(ev.heap[2]) = 1
    /\ status = "StackUnderflow"
    /\ result = NoneV

---------------------------------------------------------------------------
(* Claims about the heap's methods, under SpecHeap *)

\* an entry as the call gives it back: resolved when lookup is set
Given(v) == IF lookup THEN Bound(v) ELSE v

\* the call returned the entries es, in their order: the entry itself for
\* one, a list for several, None for none; with lookup set an unbound
\* Reference among them raises InvalidReference instead
ReturnedEntries(es) ==
    IF lookup /\ \E k \in 1..Len(es) : Unbound(es[k])
    THEN status = "InvalidReference"
    ELSE /\ status = "returned"
         /\ result = IF Len(es) = 0 THEN NoneV
                      ELSE IF Len(es) = 1 THEN Given(es[1])
                      ELSE ListV([k \in 1..Len(es) |-> Given(es[k])])

\* the stacks below the active one are as the call found them
OthersKept ==
    /\ Len(stacks) = Len(ev.heap)
    /\ \A k \in 1..(Len(stacks) - 1) : stacks[k] = ev.heap[k]

C15_PeekLikePop ==
    ev.what = "peek"
    => LET r == pop(ev.heap, count, lookup)
       IN  /\ stacks = ev.heap
           /\ status = IF r.exc = "none" THEN "returned" ELSE r.exc
           /\ r.exc = "none" => result = r.ret

\* peek(0) on a stack that holds entries returned them
C15_PeekZeroReturnsAll ==
    /\ ev.what = "peek"
    /\ count = IntV(0)
    /\ depth(ev.heap) >= 1
    /\ status = "returned"
    /\ result # NoneV

---------------------------------------------------------------------------
(* Claims about eval's result, under Spec *)

\* the entries es as values: resolved when lk is set
Values(es, lk) == [k \in 1..Len(es) |-> IF lk THEN Bound(es[k]) ELSE es[k]]

\* eval ends on a single stack and is asked for k of its entries
AtResult(k) ==
    /\ AtEnd
    /\ Len(stacks) = 1
    /\ count' = IntV(k)
    /\ 1 <= k /\ k <= depth(stacks)

\* k values as eval hands them over: the value itself for one, a list for
\* several
Handed(vs) == IF Len(vs) = 1 THEN vs[1] ELSE ListV(vs)

C16_FromBottomStep ==
    \A k \in 1..MaxLimit :
        (AtResult(k) /\ status' = "returned")
        => result' = Handed(Values(SubSeq(Active(stacks), 1, k), lookup'))

\* C16 (as claimed): an eval that ends on a single stack of n entries and is
\* asked for k of them, 1 <= k <= n, returns the k entries at the bottom of
\* the stack, resolved when lookup is set.
C16_FromBottom == [][C16_FromBottomStep]_vars

C16_FromTopStep ==
    \A k \in 1..MaxLimit :
        AtResult(k)
        => LET n == depth(stacks)
               es == SubSeq(Active(stacks), n - k + 1, n)
           IN  IF lookup' /\ \E j \in 1..k : Unbound(es[j])
               THEN status' = "InvalidReference" /\ result' = NoneV
               ELSE /\ status' = "returned"
                    /\ result' = Handed(Values(es, lookup'))
                    /\ stacks' = << SubSeq(Active(stacks), 1, n - k) >>

\* C16 (amended): such an eval returns the k entries at the top of the
\* stack, in their order from the bottom up, resolved when lookup is set
\* (an unbound Reference among them raising InvalidReference) and as they
\* are otherwise.
C16_FromTop == [][C16_FromTopStep]_vars

\* C16 witness: an eval that ended on three entries was asked for two with
\* lookup: it returned the upper two, the top one resolved, and one is left.
C16_Witness ==
    /\ status = "returned"
    /\ count = IntV(2)
    /\ lookup
    /\ lastop = "None"
    /\ stacks = << <<IntV(1)>> >>
    /\ result = ListV(<<IntV(2), BoolV(FALSE)>>)

C17_AllStep ==
    (AtEnd /\ Len(stacks) = 1 /\ depth(stacks) >= 1 /\ count' = NoneV
        /\ status' = "returned")
    => result' = ListV(Values(Active(stacks), lookup'))

\* C17 (as claimed): an eval asked for all entries of a surviving stack that
\* holds some returns a sequence with one element for each entry, from the
\* bottom up: a single entry comes in a sequence of one, a single list entry
\* in a sequence holding that list.
C17_AllAsSequence == [][C17_AllStep]_vars

C18_FreshStart ==
    ev.what = "eval"
    => /\ stacks = << <<>> >>
       /\ lastop = "None"
       /\ tokens = <<>>
       /\ frames = <<>>
       /\ status = "running"
       /\ result = NoneV
       /\ nunits = 0

C18_EveryStart ==
    (status # "running" /\ status' = "running")
    => (ev'.what = "eval" /\ Config' = Config)

\* C18: every eval starts from a heap of one empty stack and lastop None,
\* whatever heap and lastop the eval before it left; the limits staying,
\* the state an eval starts from is the one a first eval starts from, so the
\* same line gives the same outcome.
C18_Reset == []C18_FreshStart /\ [][C18_EveryStart]_vars

\* C18 witness: an eval started on an instance whose last eval had run an
\* operator and failed with a bracket open.
C18_Witness ==
    /\ ev.what = "eval"
    /\ Len(ev.heap) = 2
    /\ ev.op = "invert"
    /\ stacks = << <<>> >>
    /\ lastop = "None"

---------------------------------------------------------------------------
(* Claims about modifiers met first, and about the tokenizer *)

\* a modifier is dispatched, or runs, in an eval that has dispatched no
\* operator before it
ModifierFirst ==
    /\ lastop = "None"
    /\ AtBracket("squash") \/ AtBracket("times") \/ InLoop

C19_Step ==
    ModifierFirst
    => \/ status' \notin {"running", "returned"}
       \/ frames' # <<>> /\ lastop' = "None"

\* C19 (as claimed): an eval that dispatches squash, or times with any
\* count, before any other operator fails with an exception; the modifier
\* never returns.
C19_ModifierFirstFails == [][C19_Step]_vars

\* times met first with count 1 returned and eval went on
C19_TimesOneReturns ==
    /\ ev.what = "loopend"
    /\ ev.op = "times"
    /\ Len(ev.frames) = 1
    /\ Top(ev.frames).arg = IntV(1)
    /\ ev.heap = stacks
    /\ status = "running"
    /\ lastop = "times"
    /\ nunits = 2

\* C20 (as claimed): tokenize turns the raw unit True into the boolean true
\* and the raw unit False into the boolean false.
C20_Booleans ==
    /\ (ev.what = "read" /\ ev.op = "True") => tokens = <<BoolV(TRUE)>>
    /\ (ev.what = "read" /\ ev.op = "False") => tokens = <<BoolV(FALSE)>>

\* the raw unit False was read as the boolean true
C20_FalseReadAsTrue ==
    /\ ev.what = "read"
    /\ ev.op = "False"
    /\ tokens = <<BoolV(TRUE)>>

C21_MinusNamesSubtract ==
    (ev.what = "read" /\ ev.op = "-")
    => /\ Len(tokens) = 1
       /\ isoperator(tokens[1])
       /\ env[tokens[1].ref] = OpV("subtract")

C21_MinusSubtracts ==
    (/\ AtToken
     /\ ev.what = "read" /\ ev.op = "-"
     /\ depth(stacks) >= 2
     /\ IsInt(Active(stacks)[depth(stacks) - 1])
     /\ IsInt(Active(stacks)[depth(stacks)]))
    => /\ status' = "running"
       /\ stacks' = SetActive(stacks,
              Append(SubSeq(Active(stacks), 1, depth(stacks) - 2),
                     IntV(Active(stacks)[depth(stacks) - 1].int
                          - Active(stacks)[depth(stacks)].int)))

\* C21 (as claimed): the macro symbol - expands to the name of a registered
\* subtraction operator, and met on two integers it leaves their difference
\* in their place.
C21_Minus == []C21_MinusNamesSubtract /\ [][C21_MinusSubtracts]_vars

\* the unit - was read on two integers and became a Reference that names
\* no operator
C21_MinusReadAsSub ==
    /\ ev.what = "read"
    /\ ev.op = "-"
    /\ stacks = << <<IntV(2), IntV(1)>> >>
    /\ tokens = <<RefV("sub")>>
    /\ ~isoperator(tokens[1])

---------------------------------------------------------------------------
\* The tokenizer on its own: instances made with different macro tables
\* (Pretzyl(macros = ...)) tokenize a line one raw unit at a time.

\* the raw units of the lines tokenized
MacroUnits == {"a", "b", "1", "sum"}

\* an instance made with macros = None has the empty table (pretzyl.py:514)
NoMacros == [u \in {} |-> <<>>]

\* "a" expands to a text that names "a" itself
SelfMacro == [u \in {"a"} |-> <<"a">>]

\* "a" expands to a text that names "a" twice
SelfTwiceMacro == [u \in {"a"} |-> <<"a", "a">>]

\* "a" names "b" and "b" names "a"
CrossMacros == [u \in {"a", "b"} |-> IF u = "a" THEN <<"b">> ELSE <<"a", "a">>]

MacroTables == {MacroSymbols, NoMacros, SelfMacro, SelfTwiceMacro, CrossMacros}

\* the state of eval before the first unit of the line is read
InitTokenize ==
    /\ STACKLIMIT \in Limits
    /\ STACKDEPTH \in 1..MaxDepth
    /\ INFLIMIT \in Limits
    /\ macros \in MacroTables
    /\ stacks = << <<>> >>
    /\ lastop = "None"
    /\ tokens = <<>>
    /\ frames = <<>>
    /\ status = "running"
    /\ result = NoneV
    /\ count = IntV(1)
    /\ lookup = TRUE
    /\ nunits = 0
    /\ ev = NoEv

\* one turn of the loop of tokenize: the tokens of one more raw unit
TokenizeUnit(unit) ==
    /\ nunits < MaxUnits
    /\ nunits' = nunits + 1
    /\ tokens' = tokens \o tokenize(unit, macros)
    /\ ev' = [what |-> "read", op |-> unit, exc |-> "none", frames |-> <<>>,
              heap |-> stacks]
    /\ UNCHANGED <<Config, stacks, lastop, frames, status, result, count,
                   lookup>>

NextTokenize == \E unit \in MacroUnits : TokenizeUnit(unit)

SpecTokenize == InitTokenize /\ [][NextTokenize]_vars

---------------------------------------------------------------------------
\* C22

\* the longest expansion of a table, in units (1 if it has none)
LongestExpansion ==
    IF DOMAIN macros = {} THEN 1
    ELSE LET longest == CHOOSE u \in DOMAIN macros :
                            \A v \in DOMAIN macros :
                                Len(macros[v]) <= Len(macros[u])
         IN  IF Len(macros[longest]) > 1 THEN Len(macros[longest]) ELSE 1

\* the token list is finite: no unit read gave more tokens than the longest
\* expansion text has units
C22_Finite == Len(tokens) <= nunits * LongestExpansion

\* a raw unit that is a macro gives one token per unit of its expansion
\* text, each the plain conversion of that unit: a unit of the expansion
\* that is itself a macro name becomes a Reference of that name
C22_ExpandedOnce ==
    (ev'.what = "read" /\ ev'.op \in DOMAIN macros)
    => /\ Len(tokens') = Len(tokens) + Len(macros[ev'.op])
       /\ \A k \in 1..Len(macros[ev'.op]) :
              /\ tokens'[Len(tokens) + k] = convert(macros[ev'.op][k])
              /\ macros[ev'.op][k] \in DOMAIN macros
                 => tokens'[Len(tokens) + k] = RefV(macros[ev'.op][k])

\* a raw unit that is no macro gives exactly its own token
C22_Plain ==
    (ev'.what = "read" /\ ev'.op \notin DOMAIN macros)
    => tokens' = Append(tokens, convert(ev'.op))

\* C22: macro expansion is single-pass.  Each raw unit is looked up in the
\* macro table once and the units of its expansion are converted without
\* being looked up again, so the token list stays finite for every macro
\* table, also one whose expansion names itself or another macro.
C22_SinglePass ==
    /\ []C22_Finite
    /\ [][C22_ExpandedOnce /\ C22_Plain]_vars

\* the unit "a" was read with a table where "a" names "b" and "b" names
\* "a": the one token made is the Reference b
C22_Witness ==
    /\ macros = CrossMacros
    /\ ev.what = "read"
    /\ ev.op = "a"
    /\ nunits = 2
    /\ tokens = <<RefV("a"), RefV("a"), RefV("b")>>

---------------------------------------------------------------------------
\* C23

\* C23 (as claimed): every eval ends with a result or an error of the
\* taxonomy after a bounded number of operator invocations, also when
\* several modifiers are dispatched in a row: no eval ends because the
\* calls of operators nested until the host's call stack was exhausted.
C23_NeverExhaustsHost == status # "RuntimeError"

\* the host's call stack is exhausted only by modifiers invoking a modifier
\* as lastop: the innermost call running is one of a modifier whose lastop
\* is a modifier too
C23_OnlyModifierAsLastop ==
    status = "RuntimeError"
    => /\ ev.what = "raise"
       /\ Len(ev.frames) = MaxCallDepth
       /\ \A k \in 2..Len(ev.frames) : ev.frames[k].op \in Modifiers
       /\ lastop \in Modifiers

\* eval ended by exhausting the host's call stack
C23_HostExhausted ==
    /\ status = "RuntimeError"
    /\ Len(ev.frames) = MaxCallDepth

---------------------------------------------------------------------------
\* C24

\* dup was called, by eval or by a modifier, on the heap ev.heap
DupCalled == ev.op = "dup" /\ ev.what \in {"done", "raise"}

\* the top entry of the active stack dup was called on
DupTop == Top(Active(ev.heap))

\* dup on an empty active stack fails with StackUnderflow
C24_EmptyUnderflows ==
    (DupCalled /\ depth(ev.heap) = 0)
    => (ev.what = "raise" /\ ev.exc = "StackUnderflow" /\ stacks = ev.heap)

\* dup, with room on the stack, pushes the top entry as it is
C24_PushesTopAsIs ==
    (DupCalled /\ depth(ev.heap) \in 1..(STACKLIMIT - 1))
    => /\ ev.what = "done"
       /\ stacks = SetActive(ev.heap, Append(Active(ev.heap), DupTop))

\* C24 (as claimed): dup pushes a copy of the top entry without looking up
\* its value: a Reference on top is pushed again as that Reference, an
\* unbound one does not fail with InvalidReference; dup on an empty active
\* stack fails with StackUnderflow.
C24_DupNoLookup == C24_EmptyUnderflows /\ C24_PushesTopAsIs

\* what dup does: the entry pushed is the value of the top entry, and an
\* unbound Reference on top fails with InvalidReference
C24_DupLooksUp ==
    (DupCalled /\ depth(ev.heap) \in 1..(STACKLIMIT - 1))
    => IF Unbound(DupTop)
       THEN ev.what = "raise" /\ ev.exc = "InvalidReference" /\ stacks = ev.heap
       ELSE /\ ev.what = "done"
            /\ stacks = SetActive(ev.heap, Append(Active(ev.heap), Bound(DupTop)))

\* dup was called on a bound Reference and pushed its value
C24_PushedValue ==
    /\ DupCalled
    /\ ev.what = "done"
    /\ stacks = << <<RefV("setbutFalse"), BoolV(FALSE)>> >>

---------------------------------------------------------------------------
\* C25

\* an operator's call raised StackUnderflow
Underflowed == ev.what = "raise" /\ ev.exc = "StackUnderflow"

\* the frame of the squash that caught the StackUnderflow, 0 when none did
CaughtBy == catcher(ev.frames, "StackUnderflow")

\* the heap on which the catching squash made its failing call of lastop:
\* the heap of the raising call when squash made that call itself, else the
\* heap on which the modifier squash called was called
FailingCallHeap ==
    IF CaughtBy = Len(ev.frames) THEN ev.heap ELSE ev.frames[CaughtBy + 1].h0

\* the call that raises StackUnderflow leaves the heap as it found it
C25_FetchKeepsHeap == Underflowed => stacks = ev.heap

\* when squash catches the StackUnderflow the heap is as it was when squash
\* made the failing call of lastop, that is as the last successful call left
\* it
C25_SquashKeepsHeap ==
    (Underflowed /\ CaughtBy # 0) => stacks = FailingCallHeap

\* C25 (as claimed): a pop or argument fetch that fails with StackUnderflow
\* leaves the whole heap unchanged; hence when squash ends on a caught
\* StackUnderflow the active stack is exactly as the last successful
\* invocation of lastop left it and no entry has been lost.
C25_UnderflowLosesNothing == C25_FetchKeepsHeap /\ C25_SquashKeepsHeap

\* when the call that raised was not one of a modifier, squash made it
\* itself and the heap is as that call found it
C25_PlainLastopKeepsHeap ==
    (Underflowed /\ CaughtBy # 0 /\ ev.op \notin Modifiers)
    => /\ CaughtBy = Len(ev.frames)
       /\ stacks = FailingCallHeap

\* pop and peek called on too few entries leave the heap as it is
C25_PopKeepsHeap ==
    (ev.what \in {"pop", "peek"} /\ status = "StackUnderflow") => stacks = ev.heap

\* squash caught the StackUnderflow of a call nested in times, after times
\* had taken its count off the stack
C25_EntryLost ==
    /\ Underflowed
    /\ CaughtBy # 0
    /\ CaughtBy < Len(ev.frames)
    /\ depth(stacks) < depth(FailingCallHeap)

===========================================================================
